---- MODULE Spec2Model ----
(***************************************************************************)
(* Model of the lens renderer: Model::load, ModelRenderer::new_renderer,   *)
(* DrawModel::draw_model / draw_mesh_instanced (src/src/renderer.rs) and   *)
(* the Scene / frame loop of src/src/lib.rs.                               *)
(*                                                                         *)
(* Option<T> is a sequence of length at most one: None is <<>>, Some(v)    *)
(* is <<v>>.  Vec indices stay 0-based as in the source; a Vec is a TLA+   *)
(* sequence, so vec[i] is seq[i + 1].  f32 array entries carry no          *)
(* behaviour of their own and are small integers.                          *)
(***************************************************************************)
EXTENDS Integers, Sequences, FiniteSets, TLC

VARIABLES
    pc,               \* where the program is: "running", "exit", "panic",
                      \* or a stage of a direct use of the renderer API
    call,             \* arguments of the direct API use (and what to_raw returned),
                      \* [kind |-> "run"] in the frame loop
    model_renderers,  \* Scene::model_renderers
    size,             \* Scene::size
    config,           \* Scene::config (width, height)
    surface,          \* the configuration the surface was last configured with
    depth_texture,    \* Scene::depth_texture (its extent)
    projection,       \* Scene::camera_binder.projection (its extent)
    mouse_pressed,    \* Scene::mouse_pressed
    control_flow,     \* *control_flow of the event loop closure
    event,            \* the event the closure handled last
    result,           \* outcome of the last Scene::render
    calls,            \* calls to collaborators made by the last handler, in order
    pass,             \* commands recorded by the last render or draw_model, in order
    clock,            \* what std::time::Instant::now() returns
    last_render_time, \* last_render_time of Lens::run
    dt                \* the argument of the last Scene::update

vars == <<pc, call, model_renderers, size, config, surface, depth_texture,
          projection, mouse_pressed, control_flow, event,
          result, calls, pass, clock, last_render_time, dt>>

(***************************************************************************)
(* Bounds of the inputs.                                                   *)
(***************************************************************************)
MaxMeshes == 2

MaxMaterials == 1

MaxImages == 2

MaxInstances == 1

MaxDim == 2

MaxCoord == 3

MaxTime == 2

(***************************************************************************)
(* Option                                                                  *)
(***************************************************************************)
None == <<>>

Some(v) == <<v>>

IsSome(o) == o # <<>>

Unwrap(o) == o[1]

UnwrapOr(o, d) == IF IsSome(o) THEN o[1] ELSE d

OptionOf(S) == {None} \cup {Some(v) : v \in S}

SeqUpTo(S, n) == UNION {[1..k -> S] : k \in 0..n}

(***************************************************************************)
(* Vertex buffer layouts (renderer.rs, ModelVertex::desc, InstanceRaw::desc)*)
(***************************************************************************)
F32Size == 4

ModelVertexDesc ==
    [array_stride |-> 8 * F32Size,
     step_mode |-> "Vertex",
     attributes |->
        << [offset |-> 0,           shader_location |-> 0, format |-> "Float32x3"],
           [offset |-> 3 * F32Size, shader_location |-> 1, format |-> "Float32x2"],
           [offset |-> 5 * F32Size, shader_location |-> 2, format |-> "Float32x3"] >>]

InstanceRawDesc ==
    [array_stride |-> 25 * F32Size,
     step_mode |-> "Instance",
     attributes |->
        << [offset |-> 0,            shader_location |-> 5,  format |-> "Float32x4"],
           [offset |-> 4 * F32Size,  shader_location |-> 6,  format |-> "Float32x4"],
           [offset |-> 8 * F32Size,  shader_location |-> 7,  format |-> "Float32x4"],
           [offset |-> 12 * F32Size, shader_location |-> 8,  format |-> "Float32x4"],
           [offset |-> 16 * F32Size, shader_location |-> 9,  format |-> "Float32x3"],
           [offset |-> 19 * F32Size, shader_location |-> 10, format |-> "Float32x3"],
           [offset |-> 22 * F32Size, shader_location |-> 11, format |-> "Float32x3"] >>]

(***************************************************************************)
(* Collaborators: the camera and the light expose a bind-group layout and  *)
(* a bind group.  GPU handles are records [kind, id].                      *)
(***************************************************************************)
MaterialLayout == "material_bind_group_layout"

CameraBinder ==
    [bind_group_layout |-> "camera_bind_group_layout",
     bind_group |-> [kind |-> "camera", id |-> 0]]

LightBinder ==
    [bind_group_layout |-> "light_bind_group_layout",
     bind_group |-> [kind |-> "light", id |-> 0]]

(***************************************************************************)
(* Model::load                                                             *)
(***************************************************************************)
\* for i in 0..positions.len() / 3: the reads of texcoords and normals are
\* bounds-checked slice indexing; the reads of positions are always in range
VerticesInBounds(mesh) ==
    \A i \in 0..((Len(mesh.positions) \div 3) - 1) :
        /\ i * 2 + 1 < Len(mesh.texcoords)
        /\ i * 3 + 2 < Len(mesh.normals)

Vertices(mesh) ==
    [n \in 1..(Len(mesh.positions) \div 3) |->
        LET i == n - 1 IN
        [position |-> << mesh.positions[i * 3 + 1], mesh.positions[i * 3 + 2],
                         mesh.positions[i * 3 + 3] >>,
         tex_coords |-> << mesh.texcoords[i * 2 + 1], mesh.texcoords[i * 2 + 2] >>,
         normal |-> << mesh.normals[i * 3 + 1], mesh.normals[i * 3 + 2],
                       mesh.normals[i * 3 + 3] >>]]

\* a buffer is a GPU handle; of a vertex buffer's contents the number of
\* records is kept, of an index buffer's the indices as they were given
LoadGeometry(m) ==
    [name |-> m.name,
     vertex_buffer |-> [kind |-> "vertex", records |-> Len(Vertices(m.mesh))],
     index_buffer |-> [kind |-> "index", records |-> Len(m.mesh.indices),
                       contents |-> m.mesh.indices],
     num_elements |-> Len(m.mesh.indices)]

\* variant: the material index is kept whether or not textures were given
LoadMesh_IgnoreFlag(m, material_flag) ==
    [geometry |-> LoadGeometry(m),
     material_id |-> Some(UnwrapOr(m.mesh.material_id, 0))]

LoadMesh(m, material_flag) ==
    IF material_flag
    THEN [geometry |-> LoadGeometry(m),
          material_id |-> Some(UnwrapOr(m.mesh.material_id, 0))]
    ELSE [geometry |-> LoadGeometry(m), material_id |-> None]

\* variant: the materials are built from the last image to the first
LoadMaterials_Reversed(textures) ==
    IF IsSome(textures)
    THEN Some([j \in 1..Len(Unwrap(textures)) |->
                 LET t == Unwrap(textures)[Len(Unwrap(textures)) + 1 - j] IN
                 [name |-> t.name,
                  diffuse_texture |-> [label |-> t.label, image |-> t.image],
                  bind_group |-> [kind |-> "material", id |-> j - 1]]])
    ELSE None

LoadMaterials(textures) ==
    IF IsSome(textures)
    THEN Some([j \in 1..Len(Unwrap(textures)) |->
                 [name |-> Unwrap(textures)[j].name,
                  diffuse_texture |-> [label |-> Unwrap(textures)[j].label,
                                       image |-> Unwrap(textures)[j].image],
                  bind_group |-> [kind |-> "material", id |-> j - 1]]])
    ELSE None

\* variant: the layout is created whether or not textures were given
LoadMaterialLayout_Always(textures) == Some(MaterialLayout)

LoadMaterialLayout(textures) ==
    IF IsSome(textures) THEN Some(MaterialLayout) ELSE None

\* ok = FALSE is the panic of an out-of-bounds read while the vertices of
\* some mesh are built; no Model is returned then
Load(object) ==
    LET material_flag == IsSome(object.textures) IN
    IF \A k \in 1..Len(object.models) : VerticesInBounds(object.models[k].mesh)
    THEN [ok |-> TRUE,
          model |-> [meshes |-> [k \in 1..Len(object.models) |->
                                    LoadMesh(object.models[k], material_flag)],
                     materials |-> LoadMaterials(object.textures),
                     material_layout |-> LoadMaterialLayout(object.textures)]]
    ELSE [ok |-> FALSE, model |-> None]

(***************************************************************************)
(* ModelRenderer::new_renderer                                             *)
(***************************************************************************)
\* variant: the material layout is never pushed
BindGroupLayouts_NoMaterial(model, camera, light) ==
    << camera.bind_group_layout, light.bind_group_layout >>

\* variant: the material layout is pushed after the camera and the light
BindGroupLayouts_MaterialLast(model, camera, light) ==
    << camera.bind_group_layout, light.bind_group_layout >>
    \o (IF IsSome(model.material_layout)
        THEN << Unwrap(model.material_layout) >> ELSE << >>)

BindGroupLayouts(model, camera, light) ==
    (IF IsSome(model.material_layout)
     THEN << Unwrap(model.material_layout) >> ELSE << >>)
    \o << camera.bind_group_layout, light.bind_group_layout >>

\* variant: the per-instance layout is pushed before the per-vertex layout
VertexLayouts_InstanceFirst(instance_mode) ==
    (IF instance_mode THEN << "InstanceRaw::desc" >> ELSE << >>)
    \o << "ModelVertex::desc" >>

\* the layouts are named here; VertexLayoutDesc gives the layout of a name
VertexLayouts(instance_mode) ==
    << "ModelVertex::desc" >>
    \o (IF instance_mode THEN << "InstanceRaw::desc" >> ELSE << >>)

VertexLayoutDesc(name) ==
    IF name = "InstanceRaw::desc" THEN InstanceRawDesc ELSE ModelVertexDesc

InstanceBuffer(instance_mode, instance_data) ==
    IF instance_mode
    THEN Some([kind |-> "instance", records |-> Len(Unwrap(instance_data))])
    ELSE None

NewRenderer(model, camera, light, shader_file, instance_data, instance_length) ==
    LET instance_mode == IsSome(instance_data) IN
    [model |-> model,
     render_pipeline |->
        [bind_group_layouts |-> BindGroupLayouts(model, camera, light),
         vertex_layouts |-> VertexLayouts(instance_mode),
         shader |-> shader_file],
     instance_buffer |-> InstanceBuffer(instance_mode, instance_data),
     instance_length |-> instance_length]

(***************************************************************************)
(* Render pass commands.  Every command is a record of the same shape.     *)
(***************************************************************************)
NoRes == [kind |-> "none"]

SetPipeline(p) ==
    [op |-> "set_pipeline", slot |-> 0, res |-> [kind |-> "pipeline", pipeline |-> p],
     format |-> "", lo |-> 0, hi |-> 0, inst |-> << 0, 0 >>]

SetVertexBuffer(slot, buf) ==
    [op |-> "set_vertex_buffer", slot |-> slot, res |-> buf, format |-> "",
     lo |-> 0, hi |-> 0, inst |-> << 0, 0 >>]

SetIndexBuffer(buf, format) ==
    [op |-> "set_index_buffer", slot |-> 0, res |-> buf, format |-> format,
     lo |-> 0, hi |-> 0, inst |-> << 0, 0 >>]

SetBindGroup(slot, group) ==
    [op |-> "set_bind_group", slot |-> slot, res |-> group, format |-> "",
     lo |-> 0, hi |-> 0, inst |-> << 0, 0 >>]

DrawIndexed(lo, hi, instances) ==
    [op |-> "draw_indexed", slot |-> 0, res |-> NoRes, format |-> "",
     lo |-> lo, hi |-> hi, inst |-> instances]

(***************************************************************************)
(* DrawModel::draw_mesh_instanced                                          *)
(***************************************************************************)
\* variant: the offset is never advanced past the material slot
MaterialOffset_NoShift(material_bind_group) == 0

MaterialOffset(material_bind_group) ==
    IF IsSome(material_bind_group) THEN 1 ELSE 0

\* variant: the mesh is drawn before its bind groups are set
DrawMeshInstanced_DrawFirst(mesh, material_bind_group, instances, bind_groups) ==
    LET offset == MaterialOffset(material_bind_group) IN
    << SetVertexBuffer(0, mesh.geometry.vertex_buffer),
       SetIndexBuffer(mesh.geometry.index_buffer, "Uint32"),
       DrawIndexed(0, mesh.geometry.num_elements, instances) >>
    \o (IF IsSome(material_bind_group)
        THEN << SetBindGroup(0, Unwrap(material_bind_group)) >> ELSE << >>)
    \o [p \in 1..Len(bind_groups) |-> SetBindGroup((p - 1) + offset, bind_groups[p])]

DrawMeshInstanced(mesh, material_bind_group, instances, bind_groups) ==
    LET offset == MaterialOffset(material_bind_group) IN
    << SetVertexBuffer(0, mesh.geometry.vertex_buffer),
       SetIndexBuffer(mesh.geometry.index_buffer, "Uint32") >>
    \o (IF IsSome(material_bind_group)
        THEN << SetBindGroup(0, Unwrap(material_bind_group)) >> ELSE << >>)
    \o [p \in 1..Len(bind_groups) |-> SetBindGroup((p - 1) + offset, bind_groups[p])]
    \o << DrawIndexed(0, mesh.geometry.num_elements, instances) >>

(***************************************************************************)
(* DrawModel::draw_model.  The result is the commands recorded and         *)
(* whether the call returned (ok) or panicked at an unwrap or an           *)
(* out-of-bounds index; the commands recorded before a panic stay.         *)
(***************************************************************************)
\* variant: the recorded count is not used for the range
InstancesToDraw_Single(instance_length) == << 0, 1 >>

\* 0..(instance_range as u32): within the bounds of this model every count
\* is below 2^32, where the cast keeps the value
InstancesToDraw(instance_length) ==
    IF IsSome(instance_length) THEN << 0, Unwrap(instance_length) >> ELSE << 0, 1 >>

\* model.materials.as_ref().unwrap()[material_index] is evaluated without panic
MaterialLookupOk(model, mesh) ==
    IsSome(mesh.material_id) =>
        /\ IsSome(model.materials)
        /\ Unwrap(mesh.material_id) < Len(Unwrap(model.materials))

\* variant: the material is chosen by whether the model has materials
MaterialBindGroup_ModelWide(model, mesh) ==
    IF IsSome(model.materials) /\ Len(Unwrap(model.materials)) > 0
    THEN Some(Unwrap(model.materials)[UnwrapOr(mesh.material_id, 0) + 1].bind_group)
    ELSE None

MaterialBindGroup(model, mesh) ==
    IF IsSome(mesh.material_id)
    THEN Some(Unwrap(model.materials)[Unwrap(mesh.material_id) + 1].bind_group)
    ELSE None

RECURSIVE DrawMeshes(_, _, _, _, _)
DrawMeshes(model, k, instances, bind_groups, cmds) ==
    IF k > Len(model.meshes) THEN [cmds |-> cmds, ok |-> TRUE]
    ELSE IF ~MaterialLookupOk(model, model.meshes[k]) THEN [cmds |-> cmds, ok |-> FALSE]
    ELSE DrawMeshes(model, k + 1, instances, bind_groups,
                    cmds \o DrawMeshInstanced(model.meshes[k],
                                              MaterialBindGroup(model, model.meshes[k]),
                                              instances, bind_groups))

DrawModel(cmds, model_renderer, bind_groups) ==
    LET head == cmds \o << SetPipeline(model_renderer.render_pipeline) >> IN
    IF IsSome(model_renderer.instance_length) /\ ~IsSome(model_renderer.instance_buffer)
    THEN [cmds |-> head, ok |-> FALSE]
    ELSE DrawMeshes(model_renderer.model, 1,
                    InstancesToDraw(model_renderer.instance_length), bind_groups,
                    IF IsSome(model_renderer.instance_length)
                    THEN head \o << SetVertexBuffer(1, Unwrap(model_renderer.instance_buffer)) >>
                    ELSE head)

(***************************************************************************)
(* Inputs: what the asset decoder hands to Model::load (object.rs, Object) *)
(* and what a caller hands to new_renderer.                                *)
(***************************************************************************)
\* a mesh with zero faces, one triangle, one triangle whose texcoords
\* array is one vertex short, and one triangle whose last index names a
\* fourth vertex and whose normals array is one vertex long
Geometries ==
    { [positions |-> << >>, texcoords |-> << >>, normals |-> << >>, indices |-> << >>],
      [positions |-> << 0, 0, 0, 1, 0, 0, 0, 1, 0 >>,
       texcoords |-> << 0, 0, 1, 0, 0, 1 >>,
       normals |-> << 0, 0, 1, 0, 0, 1, 0, 0, 1 >>,
       indices |-> << 0, 1, 2 >>],
      [positions |-> << 0, 0, 0, 1, 0, 0, 0, 1, 0 >>,
       texcoords |-> << 0, 0, 1, 0 >>,
       normals |-> << 0, 0, 1, 0, 0, 1, 0, 0, 1 >>,
       indices |-> << 0, 1, 2 >>],
      [positions |-> << 0, 0, 0, 1, 0, 0, 0, 1, 0 >>,
       texcoords |-> << 0, 0, 1, 0, 0, 1 >>,
       normals |-> << 0, 0, 1, 0, 0, 1, 0, 0, 1, 0, 0, 1 >>,
       indices |-> << 0, 1, 3 >>] }

\* the arrays describe the same vertices and every index names one of them
VertexCount(mesh) == Len(mesh.positions) \div 3

WellFormed(mesh) ==
    /\ Len(mesh.positions) = 3 * VertexCount(mesh)
    /\ Len(mesh.texcoords) = 2 * VertexCount(mesh)
    /\ Len(mesh.normals) = 3 * VertexCount(mesh)
    /\ \A n \in 1..Len(mesh.indices) : mesh.indices[n] < VertexCount(mesh)

\* tobj::Model { name, mesh } with mesh.material_id: Option<usize>
ObjModel(g, material_id) ==
    [name |-> "mesh",
     mesh |-> [positions |-> g.positions, texcoords |-> g.texcoords,
               normals |-> g.normals, indices |-> g.indices,
               material_id |-> material_id]]

ObjModels(geometries, ids) ==
    SeqUpTo({ObjModel(g, id) : g \in geometries, id \in OptionOf(ids)}, MaxMeshes)

\* the j-th (image, label, name) triple; the three entries identify the
\* position the triple had in the decoder's output
TextureList(n) == [j \in 1..n |-> [image |-> j, label |-> j, name |-> j]]

TextureInputs == OptionOf({TextureList(n) : n \in 0..MaxImages})

\* Object::load_from: one texture per material of the file, always Some;
\* a mesh names no material or one of the file's materials, and the files
\* the frame loop is run on hold triangles with complete vertex arrays
DecodedGeometries ==
    {g \in Geometries : WellFormed(g) /\ g.indices # << >>}

DecodedObjects ==
    UNION { { [models |-> ms, textures |-> Some(TextureList(n))] :
                ms \in ObjModels(DecodedGeometries, 0..(n - 1)) } : n \in 0..MaxMaterials }

\* any Object a caller of Model::load can build (its fields are public)
Objects ==
    { [models |-> ms, textures |-> t] :
        ms \in ObjModels(Geometries, 0..MaxMaterials), t \in TextureInputs }

\* cgmath::Quaternion { s, v }.  A quaternion whose components are integers
\* is held by its components; any other by the axis and the angle in
\* degrees it was built from.
Quaternion(s, v) == [kind |-> "exact", s |-> s, v |-> v, deg |-> 0]

UnitX == << 1, 0, 0 >>

UnitY == << 0, 1, 0 >>

UnitZ == << 0, 0, 1 >>

\* Quaternion::from_axis_angle(axis, Deg(deg)) = (cos(deg/2), sin(deg/2) * axis)
FromAxisAngle(axis, deg) ==
    IF deg = 0 THEN Quaternion(1, << 0, 0, 0 >>)
    ELSE IF deg = 180 THEN Quaternion(0, axis)
    ELSE [kind |-> "axis_angle", s |-> 0, v |-> axis, deg |-> deg]

\* matrices are sequences of columns, as cgmath stores them and as
\* into() hands them to InstanceRaw
\* variant: the translation is written into the last row
FromTranslation_LastRow(v) ==
    << << 1, 0, 0, v[1] >>, << 0, 1, 0, v[2] >>, << 0, 0, 1, v[3] >>, << 0, 0, 0, 1 >> >>

FromTranslation(v) ==
    << << 1, 0, 0, 0 >>, << 0, 1, 0, 0 >>, << 0, 0, 1, 0 >>, << v[1], v[2], v[3], 1 >> >>

\* Matrix3::from(Quaternion)
Matrix3From(q) ==
    LET x2 == q.v[1] + q.v[1]
        y2 == q.v[2] + q.v[2]
        z2 == q.v[3] + q.v[3]
        xx2 == x2 * q.v[1]
        xy2 == x2 * q.v[2]
        xz2 == x2 * q.v[3]
        yy2 == y2 * q.v[2]
        yz2 == y2 * q.v[3]
        zz2 == z2 * q.v[3]
        sy2 == y2 * q.s
        sz2 == z2 * q.s
        sx2 == x2 * q.s
    IN  << << 1 - yy2 - zz2, xy2 + sz2, xz2 - sy2 >>,
           << xy2 - sz2, 1 - xx2 - zz2, yz2 + sx2 >>,
           << xz2 + sy2, yz2 - sx2, 1 - xx2 - yy2 >> >>

\* Matrix4::from(Quaternion): the rotation with a last row and column of the
\* identity
Matrix4From(q) ==
    LET m == Matrix3From(q) IN
    << m[1] \o << 0 >>, m[2] \o << 0 >>, m[3] \o << 0 >>, << 0, 0, 0, 1 >> >>

\* Matrix4 * Matrix4: column j of the product is a applied to column j of b
Mul4(a, b) ==
    [j \in 1..4 |->
        [i \in 1..4 |->
            a[1][i] * b[j][1] + a[2][i] * b[j][2] + a[3][i] * b[j][3] + a[4][i] * b[j][4]]]

\* Instance::to_raw; of a rotation that is not held by its components the
\* two products are kept unevaluated
ToRaw(instance) ==
    IF instance.rotation.kind = "exact"
    THEN [kind |-> "matrices",
          model |-> Mul4(FromTranslation(instance.position), Matrix4From(instance.rotation)),
          normal |-> Matrix3From(instance.rotation)]
    ELSE [kind |-> "products",
          model |-> << instance.position, instance.rotation >>,
          normal |-> << instance.rotation >>]

InstanceList(n) ==
    [j \in 1..n |-> ToRaw([position |-> << j, 0, 0 >>, rotation |-> FromAxisAngle(UnitZ, 0)])]

InstanceDataInputs == OptionOf({InstanceList(n) : n \in 0..MaxInstances})

InstanceLengthInputs == OptionOf(0..MaxInstances)

\* the objects a renderer is built for with every pair of instance
\* arguments: every image present, every mesh well-formed
InstancedObjects ==
    { [models |-> ms, textures |-> Some(TextureList(MaxImages))] :
        ms \in ObjModels({g \in Geometries : WellFormed(g)}, 0..MaxMaterials) }

\* new_renderer(Model::load(object), .., instance_data, instance_length):
\* every object without instances, the instanced objects with any pair
PlainCalls ==
    { [object |-> o, instance_data |-> None, instance_length |-> None] : o \in Objects }

InstancedCalls ==
    { [object |-> o, instance_data |-> d, instance_length |-> l] :
        o \in InstancedObjects, d \in InstanceDataInputs, l \in InstanceLengthInputs }

(***************************************************************************)
(* Direct use of the renderer API: new_renderer(Model::load(object), ...)   *)
(* as Scene::new calls it, then draw_model in a fresh render pass with the *)
(* camera and light bind groups as Scene::render calls it.                 *)
(***************************************************************************)
SharedBindGroups == << CameraBinder.bind_group, LightBinder.bind_group >>

\* an event of the loop, or the operation of a direct API use
Ev(kind, width, height, button, pressed) ==
    [kind |-> kind, width |-> width, height |-> height,
     button |-> button, pressed |-> pressed]

NoEvent == Ev("none", 0, 0, 0, FALSE)

OpEvent(kind) == Ev(kind, 0, 0, 0, FALSE)

TimeUnchanged == UNCHANGED << clock, last_render_time, dt >>

SceneUnchanged ==
    /\ UNCHANGED << size, config, surface, depth_texture, projection, mouse_pressed,
                    control_flow, result >>
    /\ TimeUnchanged

ApiInitScene ==
    /\ size = [width |-> 1, height |-> 1]
    /\ config = [width |-> 1, height |-> 1]
    /\ surface = [width |-> 1, height |-> 1]
    /\ depth_texture = [width |-> 1, height |-> 1]
    /\ projection = [width |-> 1, height |-> 1]
    /\ mouse_pressed = FALSE
    /\ control_flow = "Poll"
    /\ event = NoEvent
    /\ result = "none"
    /\ calls = << >>
    /\ pass = << >>
    /\ clock = 0
    /\ last_render_time = 0
    /\ dt = 0

ApiInit ==
    /\ pc = "api_ready"
    /\ \/ call \in PlainCalls
       \/ call \in InstancedCalls
    /\ model_renderers = << >>
    /\ ApiInitScene

ApiNewRenderer ==
    /\ pc = "api_ready"
    /\ LET loaded == Load(call.object) IN
         IF loaded.ok
         THEN /\ model_renderers' =
                    << NewRenderer(loaded.model, CameraBinder, LightBinder, "shader.wgsl",
                                   call.instance_data, call.instance_length) >>
              /\ pc' = "api_built"
              /\ calls' = << "Model::load", "new_renderer" >>
         ELSE /\ model_renderers' = model_renderers
              /\ pc' = "panic"
              /\ calls' = << "Model::load" >>
    /\ event' = OpEvent("new_renderer")
    /\ UNCHANGED << call, pass >>
    /\ SceneUnchanged

ApiDrawModel ==
    /\ pc \in {"api_built", "api_drawn"}
    /\ LET drawn == DrawModel(<< >>, model_renderers[1], SharedBindGroups) IN
         /\ pass' = drawn.cmds
         /\ pc' = IF drawn.ok THEN "api_drawn" ELSE "panic"
    /\ event' = OpEvent("draw_model")
    /\ calls' = << "draw_model" >>
    /\ UNCHANGED << call, model_renderers >>
    /\ SceneUnchanged

ApiNext == ApiNewRenderer \/ ApiDrawModel

SpecApi == ApiInit /\ [][ApiNext]_vars

(***************************************************************************)
(* A ModelRenderer written as a struct literal (all fields of Model, Mesh  *)
(* and ModelRenderer are public), so that meshes with and without a        *)
(* material can share one model; then draw_model.                          *)
(***************************************************************************)
LiteralMeshes ==
    { [geometry |-> LoadGeometry(ObjModel(g, None)), material_id |-> id] :
        g \in DecodedGeometries, id \in OptionOf(0..MaxMaterials) }

LiteralModels ==
    { [meshes |-> ms, materials |-> LoadMaterials(t), material_layout |-> l] :
        ms \in SeqUpTo(LiteralMeshes, MaxMeshes),
        t \in TextureInputs,
        l \in OptionOf({MaterialLayout}) }

LiteralRenderers ==
    { [model |-> m,
       render_pipeline |->
          [bind_group_layouts |-> BindGroupLayouts(m, CameraBinder, LightBinder),
           vertex_layouts |-> VertexLayouts(IsSome(d)),
           shader |-> "shader.wgsl"],
       instance_buffer |-> InstanceBuffer(IsSome(d), d),
       instance_length |-> l] :
        m \in LiteralModels, d \in InstanceDataInputs, l \in InstanceLengthInputs }

LiteralInit ==
    /\ pc = "api_built"
    /\ call = [kind |-> "literal"]
    /\ model_renderers \in { << r >> : r \in LiteralRenderers }
    /\ ApiInitScene

LiteralNext == ApiDrawModel

SpecLiteral == LiteralInit /\ [][LiteralNext]_vars

(***************************************************************************)
(* Instance::to_raw applied to one instance.                               *)
(***************************************************************************)
Coords == 0..MaxCoord

\* the rotations by no angle and by a half turn about each axis
ExactRotations ==
    { FromAxisAngle(axis, deg) : axis \in {UnitX, UnitY, UnitZ}, deg \in {0, 180} }

Instances ==
    { [position |-> << x, y, z >>, rotation |-> r] :
        x \in Coords, y \in Coords, z \in Coords, r \in ExactRotations }

ToRawInit ==
    /\ pc = "to_raw_ready"
    /\ call \in { [kind |-> "to_raw", instance |-> i, raw |-> None] : i \in Instances }
    /\ model_renderers = << >>
    /\ ApiInitScene

ApiToRaw ==
    /\ pc = "to_raw_ready"
    /\ call' = [call EXCEPT !.raw = Some(ToRaw(call.instance))]
    /\ pc' = "to_raw_done"
    /\ event' = OpEvent("to_raw")
    /\ calls' = << "to_raw" >>
    /\ UNCHANGED << model_renderers, pass >>
    /\ SceneUnchanged

ToRawNext == ApiToRaw

SpecToRaw == ToRawInit /\ [][ToRawNext]_vars

(***************************************************************************)
(* Lens::new and Scene::new (lib.rs)                                       *)
(***************************************************************************)
NUM_INSTANCES_PER_ROW == 10

SPACE_BETWEEN == 3

\* the instance of column x in row z; NUM_INSTANCES_PER_ROW as f32 / 2.0 = 5.0
SceneInstance(x, z) ==
    LET position == << SPACE_BETWEEN * (x - (NUM_INSTANCES_PER_ROW \div 2)), 0,
                       SPACE_BETWEEN * (z - (NUM_INSTANCES_PER_ROW \div 2)) >> IN
    [position |-> position,
     rotation |-> IF position = << 0, 0, 0 >>
                  THEN FromAxisAngle(UnitZ, 0)
                  ELSE FromAxisAngle([normalize |-> position], 45)]

\* (0..N).flat_map(|z| (0..N).map(|x| ...)): rows of z, x running fastest
SceneInstances ==
    [n \in 1..(NUM_INSTANCES_PER_ROW * NUM_INSTANCES_PER_ROW) |->
        SceneInstance((n - 1) % NUM_INSTANCES_PER_ROW, (n - 1) \div NUM_INSTANCES_PER_ROW)]

SceneInstanceData == [n \in 1..Len(SceneInstances) |-> ToRaw(SceneInstances[n])]

\* both objects are decoded from the same file; the light drops its textures
LensNew(file) ==
    << [object |-> [models |-> file.models, textures |-> None],
        shader_file |-> "light.wgsl"],
       [object |-> file, shader_file |-> "shader.wgsl"] >>

\* variant: the cube renderer is pushed before the light renderer
SceneNew_CubeFirst(lens_objects) ==
    LET cube_object == lens_objects[Len(lens_objects)]
        light_object == lens_objects[Len(lens_objects) - 1]
        cube == Load(cube_object.object)
        light == Load(light_object.object)
    IN  IF cube.ok /\ light.ok
        THEN [ok |-> TRUE,
              model_renderers |->
                 << NewRenderer(cube.model, CameraBinder, LightBinder,
                                cube_object.shader_file, Some(SceneInstanceData),
                                Some(Len(SceneInstanceData))),
                    NewRenderer(light.model, CameraBinder, LightBinder,
                                light_object.shader_file, None, None) >>]
        ELSE [ok |-> FALSE, model_renderers |-> << >>]

\* the renderers Scene::new builds: the last object popped is the light,
\* which is pushed first.  ok = FALSE when a Model::load panics.
SceneNew(lens_objects) ==
    LET cube_object == lens_objects[Len(lens_objects)]
        light_object == lens_objects[Len(lens_objects) - 1]
        cube == Load(cube_object.object)
        light == Load(light_object.object)
    IN  IF cube.ok /\ light.ok
        THEN [ok |-> TRUE,
              model_renderers |->
                 << NewRenderer(light.model, CameraBinder, LightBinder,
                                light_object.shader_file, None, None),
                    NewRenderer(cube.model, CameraBinder, LightBinder,
                                cube_object.shader_file, Some(SceneInstanceData),
                                Some(Len(SceneInstanceData))) >>]
        ELSE [ok |-> FALSE, model_renderers |-> << >>]

(***************************************************************************)
(* Scene::resize                                                           *)
(***************************************************************************)
\* variant: one positive dimension is enough to reconfigure
Resize_Or(s, new_size) ==
    IF new_size.width > 0 \/ new_size.height > 0
    THEN [projection |-> [width |-> new_size.width, height |-> new_size.height],
          size |-> new_size,
          config |-> [width |-> new_size.width, height |-> new_size.height],
          surface |-> [width |-> new_size.width, height |-> new_size.height],
          depth_texture |-> [width |-> new_size.width, height |-> new_size.height],
          calls |-> s.calls \o << "projection.resize", "surface.configure",
                                  "create_depth_texture" >>]
    ELSE s

\* s holds the fields of Scene that resize touches and the calls made so far
Resize(s, new_size) ==
    IF new_size.width > 0 /\ new_size.height > 0
    THEN [projection |-> [width |-> new_size.width, height |-> new_size.height],
          size |-> new_size,
          config |-> [width |-> new_size.width, height |-> new_size.height],
          surface |-> [width |-> new_size.width, height |-> new_size.height],
          depth_texture |-> [width |-> new_size.width, height |-> new_size.height],
          calls |-> s.calls \o << "projection.resize", "surface.configure",
                                  "create_depth_texture" >>]
    ELSE s

SceneFields(made) ==
    [projection |-> projection, size |-> size, config |-> config,
     surface |-> surface, depth_texture |-> depth_texture, calls |-> made]

SetSceneFields(s) ==
    /\ projection' = s.projection
    /\ size' = s.size
    /\ config' = s.config
    /\ surface' = s.surface
    /\ depth_texture' = s.depth_texture
    /\ calls' = s.calls

(***************************************************************************)
(* Scene::render                                                           *)
(***************************************************************************)
SurfaceResults == {"Ok", "Lost", "OutOfMemory", "Timeout", "Outdated"}

RECURSIVE DrawRenderers(_, _, _, _)
DrawRenderers(renderers, k, bind_groups, cmds) ==
    IF k > Len(renderers) THEN [cmds |-> cmds, ok |-> TRUE]
    ELSE LET drawn == DrawModel(cmds, renderers[k], bind_groups) IN
         IF drawn.ok THEN DrawRenderers(renderers, k + 1, bind_groups, drawn.cmds)
         ELSE drawn

\* encoder.begin_render_pass: the load and store operations of the color
\* attachment and of the depth attachment
RenderPassDescriptor ==
    [kind |-> "render_pass", color_load |-> "Clear", color_store |-> TRUE,
     depth_load |-> "Clear", depth_store |-> TRUE]

BeginRenderPass(desc) ==
    [op |-> "begin_render_pass", slot |-> 0, res |-> desc, format |-> "",
     lo |-> 0, hi |-> 0, inst |-> << 0, 0 >>]

\* acquired is what surface.get_current_texture() returns; the result is
\* "panic" when a draw_model panics inside the render pass
Render(renderers, acquired) ==
    IF acquired # "Ok"
    THEN [result |-> acquired, pass |-> << >>, calls |-> << "get_current_texture" >>]
    ELSE LET drawn == DrawRenderers(renderers, 1, SharedBindGroups,
                                    << BeginRenderPass(RenderPassDescriptor) >>) IN
         IF drawn.ok
         THEN [result |-> "Ok", pass |-> drawn.cmds,
               calls |-> << "get_current_texture", "create_view",
                            "create_command_encoder", "begin_render_pass",
                            "queue.submit", "present" >>]
         ELSE [result |-> "panic", pass |-> drawn.cmds,
               calls |-> << "get_current_texture", "create_view",
                            "create_command_encoder", "begin_render_pass" >>]

(***************************************************************************)
(* Lens::run: the event loop closure, one action per event                 *)
(***************************************************************************)
Dims == 0..MaxDim

\* the state Scene::new returns in: the window size is positive (a depth
\* texture of zero extent is not created) and both models were loaded
RunInit ==
    /\ pc = "running"
    /\ call = [kind |-> "run"]
    /\ \E file \in DecodedObjects :
         /\ SceneNew(LensNew(file)).ok
         /\ model_renderers = SceneNew(LensNew(file)).model_renderers
    /\ \E w \in 1..MaxDim, h \in 1..MaxDim :
         /\ size = [width |-> w, height |-> h]
         /\ config = [width |-> w, height |-> h]
         /\ surface = [width |-> w, height |-> h]
         /\ depth_texture = [width |-> w, height |-> h]
         /\ projection = [width |-> w, height |-> h]
    /\ mouse_pressed = FALSE
    /\ control_flow = "Poll"
    /\ event = NoEvent
    /\ result = "none"
    /\ calls = << >>
    /\ pass = << >>
    /\ clock = 0
    /\ last_render_time = 0
    /\ dt = 0

\* WindowEvent::Resized and WindowEvent::ScaleFactorChanged: both arms pass
\* the size the event carries to scene.resize
WindowResized(w, h) ==
    /\ pc = "running"
    /\ event' = Ev("Resized", w, h, 0, FALSE)
    /\ SetSceneFields(Resize(SceneFields(<< >>), [width |-> w, height |-> h]))
    /\ control_flow' = "Poll"
    /\ UNCHANGED << pc, call, model_renderers, mouse_pressed, result, pass >>
    /\ TimeUnchanged

\* WindowEvent::CloseRequested, or Escape pressed
CloseRequested ==
    /\ pc = "running"
    /\ event' = Ev("CloseRequested", 0, 0, 0, FALSE)
    /\ control_flow' = "Exit"
    /\ pc' = "exit"
    /\ calls' = << >>
    /\ UNCHANGED << call, model_renderers, size, config, surface, depth_texture,
                    projection, mouse_pressed, result, pass >>
    /\ TimeUnchanged

\* variant: any button sets mouse_pressed
Input_AnyButton(kind, button, pressed, was_pressed) ==
    CASE kind = "Key" -> [mouse_pressed |-> was_pressed, calls |-> << "process_keyboard" >>]
      [] kind = "MouseWheel" -> [mouse_pressed |-> was_pressed, calls |-> << "process_scroll" >>]
      [] kind = "Button" -> [mouse_pressed |-> pressed, calls |-> << >>]
      [] kind = "MouseMotion" ->
            [mouse_pressed |-> was_pressed,
             calls |-> IF was_pressed THEN << "process_mouse" >> ELSE << >>]
      [] OTHER -> [mouse_pressed |-> was_pressed, calls |-> << >>]

\* Scene::input: the calls to the camera controller and mouse_pressed
Input(kind, button, pressed, was_pressed) ==
    CASE kind = "Key" -> [mouse_pressed |-> was_pressed, calls |-> << "process_keyboard" >>]
      [] kind = "MouseWheel" -> [mouse_pressed |-> was_pressed, calls |-> << "process_scroll" >>]
      [] kind = "Button" /\ button = 1 -> [mouse_pressed |-> pressed, calls |-> << >>]
      [] kind = "MouseMotion" ->
            [mouse_pressed |-> was_pressed,
             calls |-> IF was_pressed THEN << "process_mouse" >> ELSE << >>]
      [] OTHER -> [mouse_pressed |-> was_pressed, calls |-> << >>]

DeviceEvent(kind, button, pressed) ==
    /\ pc = "running"
    /\ event' = Ev(kind, 0, 0, button, pressed)
    /\ mouse_pressed' = Input(kind, button, pressed, mouse_pressed).mouse_pressed
    /\ calls' = Input(kind, button, pressed, mouse_pressed).calls
    /\ control_flow' = "Poll"
    /\ UNCHANGED << pc, call, model_renderers, size, config, surface, depth_texture,
                    projection, result, pass >>
    /\ TimeUnchanged

\* variant: a lost surface falls into the catch-all arm
HandleRenderResult_LostLogged(res, s) ==
    CASE res = "Ok" -> [scene |-> s, control_flow |-> "Poll"]
      [] res = "OutOfMemory" -> [scene |-> s, control_flow |-> "Exit"]
      [] OTHER -> [scene |-> [s EXCEPT !.calls = @ \o << "eprintln" >>],
                   control_flow |-> "Poll"]

\* the match on scene.render() in the RedrawRequested arm: the scene fields,
\* the control flow and the calls after it
HandleRenderResult(res, s) ==
    CASE res = "Ok" -> [scene |-> s, control_flow |-> "Poll"]
      [] res = "Lost" -> [scene |-> Resize(s, s.size), control_flow |-> "Poll"]
      [] res = "OutOfMemory" -> [scene |-> s, control_flow |-> "Exit"]
      [] OTHER -> [scene |-> [s EXCEPT !.calls = @ \o << "eprintln" >>],
                   control_flow |-> "Poll"]

\* variant: the duration is measured from the start of the loop
Elapsed_SinceStart(now, last) == now

\* let dt = now - last_render_time
Elapsed(now, last) == now - last

\* Scene::update(dt): the collaborators it calls
Update == << "camera.update", "light.update" >>

\* variant: the renderers are drained while they are drawn
Rendered_Drained(renderers) == << >>

\* Scene::model_renderers after Scene::render: the loop over the renderers
\* borrows each of them immutably
Rendered(renderers) == renderers

RedrawRequested(acquired) ==
    /\ pc = "running"
    /\ event' = Ev("RedrawRequested", 0, 0, 0, FALSE)
    /\ dt' = Elapsed(clock, last_render_time)
    /\ last_render_time' = clock
    /\ clock' = clock
    /\ model_renderers' = Rendered(model_renderers)
    /\ LET rendered == Render(model_renderers, acquired)
           made == Update \o rendered.calls
       IN  /\ result' = rendered.result
           /\ pass' = rendered.pass
           /\ IF rendered.result = "panic"
              THEN /\ pc' = "panic"
                   /\ control_flow' = "Poll"
                   /\ SetSceneFields(SceneFields(made))
              ELSE LET handled == HandleRenderResult(rendered.result, SceneFields(made)) IN
                   /\ SetSceneFields(handled.scene)
                   /\ control_flow' = handled.control_flow
                   /\ pc' = IF handled.control_flow = "Exit" THEN "exit" ELSE "running"
    /\ UNCHANGED << call, mouse_pressed >>

MainEventsCleared ==
    /\ pc = "running"
    /\ event' = Ev("MainEventsCleared", 0, 0, 0, FALSE)
    /\ control_flow' = "Poll"
    /\ calls' = << "request_redraw" >>
    /\ UNCHANGED << pc, call, model_renderers, size, config, surface, depth_texture,
                    projection, mouse_pressed, result, pass >>
    /\ TimeUnchanged

Next ==
    \/ \E w \in Dims, h \in Dims : WindowResized(w, h)
    \/ CloseRequested
    \/ \E kind \in {"Key", "MouseWheel", "MouseMotion", "Other"} :
          DeviceEvent(kind, 0, FALSE)
    \/ \E button \in {1, 2}, pressed \in BOOLEAN : DeviceEvent("Button", button, pressed)
    \/ \E acquired \in SurfaceResults : RedrawRequested(acquired)
    \/ MainEventsCleared

Spec == RunInit /\ [][Next]_vars

\* time passes between two events
Tick ==
    /\ pc = "running"
    /\ clock < MaxTime
    /\ clock' = clock + 1
    /\ UNCHANGED << pc, call, model_renderers, size, config, surface, depth_texture,
                    projection, mouse_pressed, control_flow, event, result, calls,
                    pass, last_render_time, dt >>

\* the frame loop on one file of one textured mesh, with the clock running
ClockInit ==
    /\ RunInit
    /\ Len(model_renderers[2].model.meshes) = 1
    /\ Len(Unwrap(model_renderers[2].model.materials)) = 1

ClockNext == Next \/ Tick

SpecClock == ClockInit /\ [][ClockNext]_vars

\* MainEventsCleared requests a redraw on every turn of the loop, so while
\* the loop runs RedrawRequested keeps being delivered; what the surface
\* returns on a frame is left open
FairSpec ==
    RunInit /\ [][Next]_vars
    /\ WF_vars(\E acquired \in SurfaceResults : RedrawRequested(acquired))

(***************************************************************************)
(* Reading a recorded render pass                                          *)
(***************************************************************************)
Positions(cmds, op) == {i \in 1..Len(cmds) : cmds[i].op = op}

NthOf(S, n) == CHOOSE i \in S : Cardinality({j \in S : j < i}) = n - 1

\* the commands of the k-th draw_model call: from its set_pipeline up to the
\* next set_pipeline; << >> when fewer than k calls began
RendererSegment(cmds, k) ==
    LET P == Positions(cmds, "set_pipeline") IN
    IF Cardinality(P) < k THEN << >>
    ELSE SubSeq(cmds, NthOf(P, k),
                IF Cardinality(P) > k THEN NthOf(P, k + 1) - 1 ELSE Len(cmds))

\* the commands of the j-th mesh of a draw_model call: after the previous
\* draw_indexed up to its own; << >> when fewer than j meshes were drawn
MeshSegment(seg, j) ==
    LET D == Positions(seg, "draw_indexed") IN
    IF Cardinality(D) < j THEN << >>
    ELSE SubSeq(seg, IF j = 1 THEN 1 ELSE NthOf(D, j - 1) + 1, NthOf(D, j))

Draws(seg) == SelectSeq(seg, LAMBDA c : c.op = "draw_indexed")

BindGroupSets(seg) == SelectSeq(seg, LAMBDA c : c.op = "set_bind_group")

\* the (slot, bind group kind) pairs set in seg, in order
SlotKinds(seg) ==
    [n \in 1..Len(BindGroupSets(seg)) |->
        << BindGroupSets(seg)[n].slot, BindGroupSets(seg)[n].res.kind >>]

TexturedSlots == << << 0, "material" >>, << 1, "camera" >>, << 2, "light" >> >>

UntexturedSlots == << << 0, "camera" >>, << 1, "light" >> >>

ExpectedSlots(mesh) ==
    IF IsSome(mesh.material_id) THEN TexturedSlots ELSE UntexturedSlots

ExpectedRange(model_renderer) ==
    IF IsSome(model_renderer.instance_length)
    THEN << 0, Unwrap(model_renderer.instance_length) >>
    ELSE << 0, 1 >>

\* a frame in which the render pass was begun
ReachedRenderPass ==
    event.kind = "RedrawRequested" /\ result \in {"Ok", "panic"}

(***************************************************************************)
(* C1: in a frame that reaches the render pass, the draw_model call of     *)
(* every ModelRenderer issues exactly as many indexed draws as the model   *)
(* has meshes, each with instance range 0..k (instance count k) or 0..1    *)
(* (no instances).                                                         *)
(***************************************************************************)
C1_DrawPerMesh ==
    ReachedRenderPass =>
        \A k \in 1..Len(model_renderers) :
            LET r == model_renderers[k]
                draws == Draws(RendererSegment(pass, k))
            IN  /\ Len(draws) = Len(r.model.meshes)
                /\ \A d \in 1..Len(draws) : draws[d].inst = ExpectedRange(r)

(***************************************************************************)
(* C2: for every mesh drawn, a mesh with a material has the material at    *)
(* slot 0, the camera at slot 1 and the light at slot 2 (3 bind groups); a *)
(* mesh without one has the camera at slot 0 and the light at slot 1 (2).  *)
(***************************************************************************)
C2_SlotOffset ==
    (event.kind = "draw_model") =>
        LET r == model_renderers[1]
            seg == RendererSegment(pass, 1)
        IN  \A j \in 1..Len(Draws(seg)) :
                /\ SlotKinds(MeshSegment(seg, j)) = ExpectedSlots(r.model.meshes[j])
                /\ IsSome(r.model.meshes[j].material_id) =>
                      BindGroupSets(MeshSegment(seg, j))[1].res.id =
                          Unwrap(r.model.meshes[j].material_id)

C2_Witness ==
    /\ event.kind = "draw_model"
    /\ pc = "api_drawn"
    /\ Len(model_renderers[1].model.meshes) = 2
    /\ IsSome(model_renderers[1].model.meshes[2].material_id)
    /\ Len(Draws(pass)) = 2

(***************************************************************************)
(* C3: in a ModelRenderer whose model holds both meshes with a material    *)
(* and meshes without one.                                                 *)
(***************************************************************************)
Mixed(model) ==
    /\ \E j \in 1..Len(model.meshes) : IsSome(model.meshes[j].material_id)
    /\ \E j \in 1..Len(model.meshes) : ~IsSome(model.meshes[j].material_id)

\* every material index of the model names one of its materials
MaterialsCover(model) ==
    \A j \in 1..Len(model.meshes) :
        IsSome(model.meshes[j].material_id) =>
            /\ IsSome(model.materials)
            /\ Unwrap(model.meshes[j].material_id) < Len(Unwrap(model.materials))

\* C3 as stated: draw_model on a mixed model completes and every mesh gets
\* the slots of its own material_id, whether or not the model has materials
C3_AsStated ==
    (event.kind = "draw_model" /\ Mixed(model_renderers[1].model)) =>
        LET r == model_renderers[1]
            seg == RendererSegment(pass, 1)
        IN  /\ pc = "api_drawn"
            /\ \A j \in 1..Len(r.model.meshes) :
                  SlotKinds(MeshSegment(seg, j)) = ExpectedSlots(r.model.meshes[j])

\* C3 amended: on a mixed model every mesh that draw_model draws gets the
\* slots of its own material_id (material 0, camera 1, light 2, or camera 0,
\* light 1) whatever the preceding mesh was; draw_model completes, having
\* drawn every mesh, exactly when the model's materials hold an entry for
\* every material index and an instance buffer exists whenever an instance
\* count is recorded, and it panics when the model has no materials
C3_MixedPerMesh ==
    (event.kind = "draw_model" /\ Mixed(model_renderers[1].model)) =>
        LET r == model_renderers[1]
            seg == RendererSegment(pass, 1)
        IN  /\ \A j \in 1..Len(Draws(seg)) :
                  SlotKinds(MeshSegment(seg, j)) = ExpectedSlots(r.model.meshes[j])
            /\ (pc = "api_drawn" /\ Len(Draws(seg)) = Len(r.model.meshes))
                  <=> ( /\ MaterialsCover(r.model)
                        /\ IsSome(r.instance_length) => IsSome(r.instance_buffer) )
            /\ ~IsSome(r.model.materials) => pc = "panic"

C3_Witness ==
    /\ event.kind = "draw_model"
    /\ pc = "api_drawn"
    /\ Len(model_renderers[1].model.meshes) = 2
    /\ IsSome(model_renderers[1].model.meshes[1].material_id)
    /\ ~IsSome(model_renderers[1].model.meshes[2].material_id)
    /\ SlotKinds(MeshSegment(pass, 1)) = TexturedSlots
    /\ SlotKinds(MeshSegment(pass, 2)) = UntexturedSlots

(***************************************************************************)
(* C4: a Model loaded from an Object without textures has no mesh with a   *)
(* material_id, and the pipeline layout built for it is exactly            *)
(* [camera layout, light layout].                                          *)
(***************************************************************************)
C4_NoTextures ==
    (model_renderers # << >> /\ ~IsSome(call.object.textures)) =>
        LET r == model_renderers[1] IN
        /\ \A j \in 1..Len(r.model.meshes) : r.model.meshes[j].material_id = None
        /\ r.render_pipeline.bind_group_layouts =
              << CameraBinder.bind_group_layout, LightBinder.bind_group_layout >>

C4_Witness ==
    /\ model_renderers # << >>
    /\ ~IsSome(call.object.textures)
    /\ Len(call.object.models) = 2
    /\ IsSome(call.object.models[1].mesh.material_id)

(***************************************************************************)
(* C5: a Model loaded from an Object with N material images has exactly N  *)
(* materials, and every material_id present is an index below N.           *)
(***************************************************************************)
C5_MaterialIdInRange ==
    (model_renderers # << >> /\ IsSome(call.object.textures)) =>
        LET r == model_renderers[1]
            N == Len(Unwrap(call.object.textures))
        IN  /\ IsSome(r.model.materials)
            /\ Len(Unwrap(r.model.materials)) = N
            /\ \A j \in 1..Len(r.model.meshes) :
                  IsSome(r.model.meshes[j].material_id) =>
                      /\ 0 <= Unwrap(r.model.meshes[j].material_id)
                      /\ Unwrap(r.model.meshes[j].material_id) < N

(***************************************************************************)
(* C6: in a loaded Model, materials is present exactly when material_layout *)
(* is, and every mesh has a material_id exactly when materials is present. *)
(***************************************************************************)
C6_PresenceAgrees ==
    model_renderers # << >> =>
        LET m == model_renderers[1].model IN
        /\ IsSome(m.materials) <=> IsSome(m.material_layout)
        /\ \A j \in 1..Len(m.meshes) :
              IsSome(m.meshes[j].material_id) <=> IsSome(m.materials)

C6_Witness ==
    /\ model_renderers # << >>
    /\ IsSome(model_renderers[1].model.materials)
    /\ Len(model_renderers[1].model.meshes) = 2
    /\ ~IsSome(call.object.models[1].mesh.material_id)

(***************************************************************************)
(* C7: a renderer that has instances (instance_length is Some) has the     *)
(* per-instance layout as second vertex stream of its pipeline and holds   *)
(* an instance buffer, for every pair of arguments given to new_renderer.  *)
(***************************************************************************)
C7_InstancesHaveStream ==
    (model_renderers # << >> /\ IsSome(model_renderers[1].instance_length)) =>
        LET r == model_renderers[1] IN
        /\ Len(r.render_pipeline.vertex_layouts) = 2
        /\ VertexLayoutDesc(r.render_pipeline.vertex_layouts[2]) = InstanceRawDesc
        /\ IsSome(r.instance_buffer)

ZeroResizeStep ==
    \/ /\ event'.kind = "Resized"
       /\ event'.width = 0 \/ event'.height = 0
    \/ /\ event'.kind = "RedrawRequested"
       /\ result' = "Lost"
       /\ size.width = 0 \/ size.height = 0

C9_ZeroResizeNoOp ==
    [][ (pc = "running" /\ ZeroResizeStep) =>
            /\ UNCHANGED << size, config, projection, depth_texture, surface >>
            /\ \A n \in 1..Len(calls') :
                  calls'[n] \notin {"projection.resize", "surface.configure",
                                    "create_depth_texture"}
            /\ pc' = "running" ]_vars

C9_Witness ==
    /\ event.kind = "Resized"
    /\ event.width = 0
    /\ event.height = MaxDim
    /\ size.height # MaxDim
    /\ pc = "running"

(***************************************************************************)
(* C10: the arm of the frame loop taken for each result of render().       *)
(***************************************************************************)
Called(made, name) == \E n \in 1..Len(made) : made[n] = name

SceneKept == UNCHANGED << size, config, projection, depth_texture, surface >>

\* Ok: the loop goes on.  Lost: surface and depth target are reconfigured
\* by resize with the size the scene had, and the loop goes on.
\* OutOfMemory: the control flow becomes Exit.  Timeout, Outdated: logged,
\* nothing is reconfigured, and the loop goes on.
C10_ResultArms ==
    [][ (pc = "running" /\ event'.kind = "RedrawRequested") =>
          /\ result' = "Ok" =>
                /\ control_flow' = "Poll" /\ pc' = "running"
                /\ SceneKept
                /\ ~Called(calls', "surface.configure") /\ ~Called(calls', "eprintln")
          /\ result' = "Lost" =>
                /\ control_flow' = "Poll" /\ pc' = "running"
                /\ Called(calls', "surface.configure")
                /\ Called(calls', "create_depth_texture")
                /\ size' = size
                /\ surface' = [width |-> size.width, height |-> size.height]
                /\ depth_texture' = [width |-> size.width, height |-> size.height]
                /\ config' = [width |-> size.width, height |-> size.height]
          /\ result' = "OutOfMemory" =>
                /\ control_flow' = "Exit" /\ pc' = "exit"
                /\ SceneKept
          /\ result' \in {"Timeout", "Outdated"} =>
                /\ control_flow' = "Poll" /\ pc' = "running"
                /\ Called(calls', "eprintln")
                /\ ~Called(calls', "surface.configure")
                /\ SceneKept ]_vars

C10_Witness ==
    /\ event.kind = "RedrawRequested"
    /\ result = "Lost"
    /\ Called(calls, "surface.configure")
    /\ pc = "running"
    /\ size.width = MaxDim

(***************************************************************************)
(* C11: Model::load returns no model when the geometry is malformed (an    *)
(* index at or past the vertex count, or positions, texcoords and normals  *)
(* of lengths that do not describe the same vertices); so every Model it   *)
(* returns has num_elements equal to the number of indices and every index *)
(* below the number of vertices.                                           *)
(***************************************************************************)
C11_MalformedRejected ==
    pc = "api_built" =>
        /\ \A k \in 1..Len(call.object.models) : WellFormed(call.object.models[k].mesh)
        /\ \A k \in 1..Len(model_renderers[1].model.meshes) :
              LET geometry == model_renderers[1].model.meshes[k].geometry IN
              /\ geometry.num_elements = Len(geometry.index_buffer.contents)
              /\ \A n \in 1..Len(geometry.index_buffer.contents) :
                    geometry.index_buffer.contents[n] < geometry.vertex_buffer.records

(***************************************************************************)
(* C12: converting an instance with the identity rotation and position p   *)
(* gives a model matrix whose rotation part is the identity and whose      *)
(* translation column is (p.x, p.y, p.z, 1), and the 3x3 identity as the   *)
(* normal matrix; so for p = (3, 0, 0) the column is (3, 0, 0, 1).         *)
(***************************************************************************)
Identity3 == << << 1, 0, 0 >>, << 0, 1, 0 >>, << 0, 0, 1 >> >>

IdentityRotation == Quaternion(1, << 0, 0, 0 >>)

C12_IdentityToRaw ==
    (pc = "to_raw_done" /\ call.instance.rotation = IdentityRotation) =>
        LET raw == Unwrap(call.raw)
            p == call.instance.position
        IN  /\ raw.model[4] = << p[1], p[2], p[3], 1 >>
            /\ \A j \in 1..3 : raw.model[j] = Identity3[j] \o << 0 >>
            /\ raw.normal = Identity3

C12_Witness ==
    /\ pc = "to_raw_done"
    /\ call.instance = [position |-> << 3, 0, 0 >>, rotation |-> IdentityRotation]
    /\ Unwrap(call.raw).model[4] = << 3, 0, 0, 1 >>

(***************************************************************************)
(* C13: the bind-group layouts of a renderer's pipeline are, in order,     *)
(* [material, camera, light] when the model's material layout is present   *)
(* and [camera, light] when it is absent.                                  *)
(***************************************************************************)
C13_LayoutList ==
    model_renderers # << >> =>
        LET layouts == model_renderers[1].render_pipeline.bind_group_layouts IN
        IF IsSome(model_renderers[1].model.material_layout)
        THEN layouts = << MaterialLayout, CameraBinder.bind_group_layout,
                          LightBinder.bind_group_layout >>
        ELSE layouts = << CameraBinder.bind_group_layout, LightBinder.bind_group_layout >>

C13_Witness ==
    /\ pc = "api_built"
    /\ IsSome(model_renderers[1].model.material_layout)
    /\ Len(model_renderers[1].render_pipeline.bind_group_layouts) = 3

(***************************************************************************)
(* C14: the vertex buffer layouts of a renderer's pipeline are the         *)
(* per-vertex layout first and then the per-instance layout exactly when   *)
(* instance data was given; the per-instance attributes use the shader     *)
(* locations 5..11, all above the per-vertex locations 0..2.               *)
(***************************************************************************)
Locations(name) ==
    { VertexLayoutDesc(name).attributes[a].shader_location :
        a \in 1..Len(VertexLayoutDesc(name).attributes) }

C14_VertexLayouts ==
    (pc = "api_built") =>
        LET layouts == model_renderers[1].render_pipeline.vertex_layouts IN
        /\ Len(layouts) = IF IsSome(call.instance_data) THEN 2 ELSE 1
        /\ VertexLayoutDesc(layouts[1]).step_mode = "Vertex"
        /\ Locations(layouts[1]) = 0..2
        /\ Len(layouts) = 2 =>
              /\ VertexLayoutDesc(layouts[2]).step_mode = "Instance"
              /\ Locations(layouts[2]) = 5..11
              /\ \A v \in Locations(layouts[1]) : \A i \in Locations(layouts[2]) : v < i

C14_Witness ==
    /\ pc = "api_built"
    /\ IsSome(call.instance_data)
    /\ model_renderers[1].render_pipeline.vertex_layouts
         = << "ModelVertex::desc", "InstanceRaw::desc" >>

(***************************************************************************)
(* C15: the commands of one draw_model call come in this order: the        *)
(* pipeline is set first; a renderer with instances binds its instance     *)
(* buffer at vertex slot 1 before any mesh is drawn; the meshes are drawn  *)
(* in their stored order; and each mesh binds its vertex buffer at slot 0, *)
(* then its 32-bit index buffer, then its bind groups, after the draw of   *)
(* the mesh before it and before its own draw over 0..num_elements.        *)
(***************************************************************************)
\* the commands of the j-th mesh drawn, the h commands of the head skipped
MeshCommands(seg, h, j) ==
    LET D == Positions(seg, "draw_indexed") IN
    SubSeq(seg, IF j = 1 THEN h + 1 ELSE NthOf(D, j - 1) + 1, NthOf(D, j))

C15_CommandOrder ==
    event.kind = "draw_model" =>
        LET r == model_renderers[1]
            D == Positions(pass, "draw_indexed")
            instanced == IsSome(r.instance_length)
            h == IF instanced THEN 2 ELSE 1
        IN  /\ pass[1] = SetPipeline(r.render_pipeline)
            /\ Positions(pass, "set_pipeline") = {1}
            /\ (instanced /\ D # {}) =>
                  pass[2] = SetVertexBuffer(1, Unwrap(r.instance_buffer))
            /\ {i \in 1..Len(pass) : pass[i].op = "set_vertex_buffer" /\ pass[i].slot = 1}
                  \subseteq (IF instanced THEN {2} ELSE {})
            /\ Cardinality(D) <= Len(r.model.meshes)
            /\ pc = "api_drawn" => Cardinality(D) = Len(r.model.meshes)
            /\ D # {} => NthOf(D, Cardinality(D)) = Len(pass)
            /\ \A j \in 1..Cardinality(D) :
                  LET m == MeshCommands(pass, h, j)
                      geometry == r.model.meshes[j].geometry
                  IN  /\ m[1] = SetVertexBuffer(0, geometry.vertex_buffer)
                      /\ m[2] = SetIndexBuffer(geometry.index_buffer, "Uint32")
                      /\ \A n \in 3..(Len(m) - 1) : m[n].op = "set_bind_group"
                      /\ Len(m) > 3
                      /\ m[Len(m)].lo = 0
                      /\ m[Len(m)].hi = geometry.num_elements

\* two different meshes drawn by a renderer with instances
C15_Witness ==
    /\ pc = "api_drawn"
    /\ IsSome(model_renderers[1].instance_length)
    /\ Len(model_renderers[1].model.meshes) = 2
    /\ model_renderers[1].model.meshes[1].geometry
         # model_renderers[1].model.meshes[2].geometry
    /\ Cardinality(Positions(pass, "draw_indexed")) = 2

(***************************************************************************)
(* C16: when material images are given, the loaded model has one material  *)
(* per image in the order of the images, materials[j] built from the j-th  *)
(* image and carrying its name; and every mesh's material_id is Some of    *)
(* the source mesh's material index, or Some(0) when the source has none.  *)
(***************************************************************************)
C16_MaterialsInOrder ==
    (pc = "api_built" /\ IsSome(call.object.textures)) =>
        LET images == Unwrap(call.object.textures)
            model == model_renderers[1].model
        IN  /\ IsSome(model.materials)
            /\ Len(Unwrap(model.materials)) = Len(images)
            /\ \A j \in 1..Len(images) :
                  /\ Unwrap(model.materials)[j].name = images[j].name
                  /\ Unwrap(model.materials)[j].diffuse_texture.image = images[j].image
            /\ Len(model.meshes) = Len(call.object.models)
            /\ \A k \in 1..Len(model.meshes) :
                  LET source == call.object.models[k].mesh.material_id IN
                  model.meshes[k].material_id
                    = IF IsSome(source) THEN Some(Unwrap(source)) ELSE Some(0)

\* two images, a mesh that names the second and a mesh that names none
C16_Witness ==
    /\ pc = "api_built"
    /\ IsSome(call.object.textures)
    /\ Len(Unwrap(call.object.textures)) = 2
    /\ Len(call.object.models) = 2
    /\ call.object.models[1].mesh.material_id = Some(1)
    /\ call.object.models[2].mesh.material_id = None
    /\ model_renderers[1].model.meshes[2].material_id = Some(0)

(***************************************************************************)
(* C17: every render() call is all or nothing: either the surface texture  *)
(* is acquired, the draws of every renderer are recorded, the command      *)
(* buffer is submitted once, the frame is presented and Ok is returned; or *)
(* the acquisition fails and the error is returned with no draw recorded,  *)
(* nothing submitted and nothing presented.                                *)
(***************************************************************************)
CallCount(made, name) == Cardinality({i \in 1..Len(made) : made[i] = name})

C17_AllOrNothing ==
    event.kind = "RedrawRequested" =>
        \/ /\ result = "Ok"
           /\ \A k \in 1..Len(model_renderers) :
                 Len(Draws(RendererSegment(pass, k))) = Len(model_renderers[k].model.meshes)
           /\ CallCount(calls, "queue.submit") = 1
           /\ CallCount(calls, "present") = 1
        \/ /\ result \in SurfaceResults \ {"Ok"}
           /\ pass = << >>
           /\ CallCount(calls, "queue.submit") = 0
           /\ CallCount(calls, "present") = 0

(***************************************************************************)
(* C18: failing frames are not retried without bound: the number of        *)
(* consecutive frames on which render() fails and is attempted again is    *)
(* bounded, so while frames keep coming the loop again and again either    *)
(* has rendered a frame successfully or has stopped.                       *)
(***************************************************************************)
C18_RetriesBounded == []<>(pc # "running" \/ result = "Ok")

(***************************************************************************)
(* C19: on every RedrawRequested the loop calls update(dt) once and then   *)
(* render() once, update before render, where dt is the time since the     *)
(* previous RedrawRequested: last_render_time is set to the time of the    *)
(* redraw whether or not render succeeds.                                  *)
(***************************************************************************)
\* where name occurs in made, given that it occurs once
IndexOf(made, name) == CHOOSE i \in 1..Len(made) : made[i] = name

RedrawStep == \E acquired \in SurfaceResults : RedrawRequested(acquired)

C19_UpdateThenRender ==
    [][RedrawStep =>
        /\ dt' = clock - last_render_time
        /\ last_render_time' = clock
        /\ \A name \in {"camera.update", "light.update", "get_current_texture"} :
              CallCount(calls', name) = 1
        /\ IndexOf(calls', "camera.update") < IndexOf(calls', "get_current_texture")
        /\ IndexOf(calls', "light.update") < IndexOf(calls', "get_current_texture")]_vars

\* a redraw one unit after the one before it, on which render failed
C19_Witness ==
    /\ event.kind = "RedrawRequested"
    /\ result = "Timeout"
    /\ dt = 1
    /\ last_render_time = 2
    /\ clock = 2

(***************************************************************************)
(* C20: after the scene is built no core entity changes: whatever input,   *)
(* update, resize and render operations follow, the list of renderers      *)
(* (length and order) and each renderer's meshes, material ids, materials  *)
(* and instance_length stay as they were built; drawing changes only the   *)
(* commands recorded in the render pass.                                   *)
(***************************************************************************)
C20_EntitiesFixed ==
    [][model_renderers' = model_renderers]_vars

\* a frame was rendered, the mouse button pressed and the window resized
C20_Witness ==
    /\ result = "Ok"
    /\ pass # << >>
    /\ mouse_pressed
    /\ event.kind = "Resized"
    /\ event.width > 0
    /\ event.height > 0
    /\ size = [width |-> event.width, height |-> event.height]

(***************************************************************************)
(* C21: a successful render() begins exactly one render pass, which clears *)
(* color and depth; every renderer of model_renderers is drawn in it once, *)
(* in list order, the untextured light renderer without instances before   *)
(* the textured cube renderer with its 100 instances; and every draw of    *)
(* the frame has the one camera bind group and the one light bind group    *)
(* set.                                                                    *)
(***************************************************************************)
\* the bind groups of a kind set in seg
GroupsOfKind(seg, kind) ==
    SelectSeq(BindGroupSets(seg), LAMBDA c : c.res.kind = kind)

C21_OnePassInOrder ==
    (event.kind = "RedrawRequested" /\ result = "Ok") =>
        /\ CallCount(calls, "begin_render_pass") = 1
        /\ Positions(pass, "begin_render_pass") = {1}
        /\ pass[1].res.color_load = "Clear"
        /\ pass[1].res.depth_load = "Clear"
        /\ Cardinality(Positions(pass, "set_pipeline")) = Len(model_renderers)
        /\ Len(model_renderers) = 2
        /\ ~IsSome(model_renderers[1].model.material_layout)
        /\ ~IsSome(model_renderers[1].instance_length)
        /\ IsSome(model_renderers[2].model.material_layout)
        /\ model_renderers[2].instance_length
             = Some(NUM_INSTANCES_PER_ROW * NUM_INSTANCES_PER_ROW)
        /\ \A k \in 1..Len(model_renderers) :
              LET seg == RendererSegment(pass, k) IN
              /\ seg[1] = SetPipeline(model_renderers[k].render_pipeline)
              /\ Len(Draws(seg)) = Len(model_renderers[k].model.meshes)
              /\ \A j \in 1..Len(Draws(seg)) :
                    /\ GroupsOfKind(MeshSegment(seg, j), "camera")
                         = << SetBindGroup(IF k = 1 THEN 0 ELSE 1, CameraBinder.bind_group) >>
                    /\ GroupsOfKind(MeshSegment(seg, j), "light")
                         = << SetBindGroup(IF k = 1 THEN 1 ELSE 2, LightBinder.bind_group) >>

C21_Witness ==
    /\ event.kind = "RedrawRequested"
    /\ result = "Ok"
    /\ Len(Draws(pass)) = 4
    /\ Len(Draws(RendererSegment(pass, 1))) = 2
    /\ Draws(RendererSegment(pass, 1))[1].inst = << 0, 1 >>
    /\ Draws(RendererSegment(pass, 2))[1].inst
         = << 0, NUM_INSTANCES_PER_ROW * NUM_INSTANCES_PER_ROW >>

(***************************************************************************)
(* C22: for a renderer built by new_renderer from a loaded model, at every *)
(* draw the bind groups set for the mesh match the pipeline layout: as     *)
(* many bind groups are set as the layout has entries, and slot i holds a  *)
(* bind group of the kind the layout declares at index i; every mesh sets  *)
(* all of its slots itself, after the draw before it, so no draw relies on *)
(* what an earlier mesh or renderer left bound.                            *)
(***************************************************************************)
LayoutKind(layout) ==
    CASE layout = MaterialLayout -> "material"
      [] layout = CameraBinder.bind_group_layout -> "camera"
      [] layout = LightBinder.bind_group_layout -> "light"

InstanceStreamDeclared(model_renderer) ==
    \E n \in 1..Len(model_renderer.render_pipeline.vertex_layouts) :
        VertexLayoutDesc(model_renderer.render_pipeline.vertex_layouts[n]).step_mode
          = "Instance"

C23_StreamAgreesWithBinding ==
    event.kind = "draw_model" =>
        \A d \in Positions(pass, "draw_indexed") :
            (\E i \in 1..(d - 1) : pass[i].op = "set_vertex_buffer" /\ pass[i].slot = 1)
              <=> InstanceStreamDeclared(model_renderers[1])

(***************************************************************************)
(* C24: over any sequence of device events, a MouseMotion is forwarded to  *)
(* the camera controller exactly when the latest left-button (button 1)    *)
(* event was a press: mouse_pressed starts false, is changed only by a     *)
(* button-1 event and then says whether that event was a press; and        *)
(* handling a device event changes nothing else of the scene.              *)
(***************************************************************************)
DeviceStep ==
    \/ \E kind \in {"Key", "MouseWheel", "MouseMotion", "Other"} :
          DeviceEvent(kind, 0, FALSE)
    \/ \E button \in {1, 2}, pressed \in BOOLEAN : DeviceEvent("Button", button, pressed)

LeftButton(e) == e.kind = "Button" /\ e.button = 1

C24_MouseGate ==
    /\ mouse_pressed = FALSE
    /\ [][/\ mouse_pressed' # mouse_pressed => (DeviceStep /\ LeftButton(event'))
          /\ DeviceStep =>
                /\ LeftButton(event') => mouse_pressed' = event'.pressed
                /\ event'.kind = "MouseMotion" =>
                      (CallCount(calls', "process_mouse") = 1 <=> mouse_pressed)
                /\ event'.kind # "MouseMotion" => CallCount(calls', "process_mouse") = 0
                /\ UNCHANGED << model_renderers, size, config, surface, depth_texture,
                                projection >>]_vars

\* a motion forwarded after a press of the left button
C24_Witness ==
    /\ event.kind = "MouseMotion"
    /\ mouse_pressed
    /\ calls = << "process_mouse" >>

====
